---- MODULE Spec2Model ----
(***************************************************************************)
(* Model of mini_genomics_dashboard.py: a Streamlit script that is re-run  *)
(* from top to bottom on every widget interaction.  A date string is a     *)
(* tuple <<year, month, day>>; a datetime.date (what the date picker       *)
(* returns) is a day ordinal counted from 2020-12-31; a pandas Timestamp   *)
(* is a number of seconds counted from 2020-12-31T00:00.                   *)
(***************************************************************************)
EXTENDS Integers, Sequences, FiniteSets

VARIABLES
    cache,              \* value memoized by @st.cache_data for load_data()
    df,                 \* binding of df at the end of the last run
    date_range,         \* value of the date_input widget (tuple of dates)
    selected_regions,   \* value of the "Select Regions" multiselect
    selected_variants,  \* value of the "Select Variants" multiselect
    status,             \* "pending" | "done" | "raised" (outcome of the run)
    df_filtered,        \* binding of df_filtered (<<>> if never bound)
    count_markdown,     \* counts written by the markdown of line 90
    variant_counts,     \* binding of variant_counts (<<>> if never bound)
    bar, scatter, box   \* what each chart section emitted

vars == <<cache, df, date_range, selected_regions, selected_variants, status,
          df_filtered, count_markdown, variant_counts, bar, scatter, box>>

\* How many days around each sample date the modelled date picker offers.
DateSlack == 1

----------------------------------------------------------------------------
(* Dates and timestamps *)

SecondsPerDay == 24 * 60 * 60

DaysInMonth == <<31, 28, 31, 30, 31, 30, 31, 31, 30, 31, 30, 31>>

RECURSIVE DaysBeforeMonth(_)
DaysBeforeMonth(m) == IF m <= 1 THEN 0 ELSE DaysBeforeMonth(m - 1) + DaysInMonth[m - 1]

\* datetime.date ordinal of an ISO date string (years 2021.., no leap year in range)
Ordinal(s) == (s[1] - 2021) * 365 + DaysBeforeMonth(s[2]) + s[3]

\* pd.to_datetime on a column of ISO date strings: midnight of that day
ParseTimestamp(s) == Ordinal(s) * SecondsPerDay

\* pd.to_datetime(start_date) on a datetime.date: midnight of that day
ToDatetime(d) == d * SecondsPerDay

\* the date part of a Timestamp, as date_input takes its value/min/max
DateOf(ts) == ts \div SecondsPerDay

----------------------------------------------------------------------------
(* 3. Create / Load data *)

data ==
    [Sample_ID |-> <<"BR001", "BR002", "BR003", "MX001", "MX002", "US001", "US002", "US003">>,
     Date |-> << <<2021, 1, 15>>, <<2021, 2, 10>>, <<2021, 3, 5>>, <<2021, 2, 20>>,
                 <<2021, 3, 12>>, <<2021, 1, 25>>, <<2021, 2, 15>>, <<2021, 3, 2>> >>,
     Region |-> <<"Brazil", "Brazil", "Brazil", "Mexico", "Mexico", "USA", "USA", "USA">>,
     Variant |-> <<"Gamma", "Gamma", "Delta", "Delta", "Omicron", "Delta", "Omicron", "Gamma">>,
     Genome_Length |-> <<29903, 29903, 29850, 29900, 29870, 29910, 29865, 29903>>]

\* pd.DataFrame(data) with the Date column converted by pd.to_datetime
load_data ==
    [i \in 1..Len(data.Sample_ID) |->
        [Sample_ID |-> data.Sample_ID[i],
         Date |-> ParseTimestamp(data.Date[i]),
         Region |-> data.Region[i],
         Variant |-> data.Variant[i],
         Genome_Length |-> data.Genome_Length[i]]]

Range(s) == {s[i] : i \in 1..Len(s)}

SeqMin(S) == CHOOSE x \in S : \A y \in S : x <= y
SeqMax(S) == CHOOSE x \in S : \A y \in S : x >= y

\* df['Date'].min() / .max()
min_date(d) == SeqMin({r.Date : r \in Range(d)})
max_date(d) == SeqMax({r.Date : r \in Range(d)})

\* sorted(df['Region'].unique()) / sorted(df['Variant'].unique()); the
\* multiselect only uses them as the set of options
all_regions(d) == {r.Region : r \in Range(d)}
all_variants(d) == {r.Variant : r \in Range(d)}

----------------------------------------------------------------------------
(* 4. Filters *)

DateMaskStrict(ts, start_date, end_date) ==
    /\ ts > ToDatetime(start_date)
    /\ ts < ToDatetime(end_date)

DateMaskSwapped(ts, start_date, end_date) ==
    \/ ts >= ToDatetime(start_date) /\ ts <= ToDatetime(end_date)
    \/ ts >= ToDatetime(end_date) /\ ts <= ToDatetime(start_date)

\* (df['Date'] >= pd.to_datetime(start_date)) & (df['Date'] <= pd.to_datetime(end_date))
DateMask(ts, start_date, end_date) ==
    /\ ts >= ToDatetime(start_date)
    /\ ts <= ToDatetime(end_date)

IsinOrAll(value, selected) == selected = {} \/ value \in selected

\* Series.isin(selected)
Isin(value, selected) == value \in selected

RowMaskOr(r, start_date, end_date, regions, variants) ==
    \/ DateMask(r.Date, start_date, end_date)
    \/ Isin(r.Region, regions)
    \/ Isin(r.Variant, variants)

RowMaskNoRegion(r, start_date, end_date, regions, variants) ==
    /\ DateMask(r.Date, start_date, end_date)
    /\ Isin(r.Variant, variants)

\* the boolean mask of lines 84-87 at one row
RowMask(r, start_date, end_date, regions, variants) ==
    /\ DateMask(r.Date, start_date, end_date)
    /\ Isin(r.Region, regions)
    /\ Isin(r.Variant, variants)

ApplyFiltersConcat(d, start_date, end_date, regions, variants) ==
    LET InDates(r) == DateMask(r.Date, start_date, end_date)
                        /\ Isin(r.Region, regions) /\ Isin(r.Variant, variants)
        InSets(r) == Isin(r.Region, regions) /\ Isin(r.Variant, variants)
                        /\ DateMask(r.Date, start_date, end_date)
    IN  SelectSeq(d, InDates) \o SelectSeq(d, InSets)

\* df[mask]: the rows of df where the mask is True, in df's order
ApplyFilters(d, start_date, end_date, regions, variants) ==
    LET Keep(r) == RowMask(r, start_date, end_date, regions, variants)
    IN  SelectSeq(d, Keep)

SourceRebound(d, filtered) == filtered

\* the binding of df after lines 83-88, which bind only df_filtered
SourceAfterFilter(d, filtered) == d

----------------------------------------------------------------------------
(* 6. Charts and analyses *)

RECURSIVE Uniques(_)
\* the distinct values of a column, in order of first appearance
Uniques(col) ==
    IF col = <<>> THEN <<>>
    ELSE LET u == Uniques(SubSeq(col, 1, Len(col) - 1))
             x == col[Len(col)]
         IN  IF x \in Range(u) THEN u ELSE Append(u, x)

CountOfUnique(col, v) == Cardinality({col[i] : i \in {j \in 1..Len(col) : col[j] = v}})

\* number of occurrences of v in a column
CountOf(col, v) == Cardinality({i \in 1..Len(col) : col[i] = v})

\* insert a row into a table sorted by descending Count, after its ties
InsertByCount(table, x) ==
    LET k == Cardinality({i \in 1..Len(table) : table[i].Count >= x.Count})
    IN  SubSeq(table, 1, k) \o <<x>> \o SubSeq(table, k + 1, Len(table))

RECURSIVE SortByCount(_)
SortByCount(rows) ==
    IF rows = <<>> THEN <<>>
    ELSE InsertByCount(SortByCount(SubSeq(rows, 1, Len(rows) - 1)), rows[Len(rows)])

\* df_filtered['Variant'].value_counts().reset_index() with columns
\* ['Variant', 'Count']: one row per distinct variant, descending count
value_counts(filtered) ==
    LET col == [i \in 1..Len(filtered) |-> filtered[i].Variant]
        u == Uniques(col)
    IN  SortByCount([i \in 1..Len(u) |-> [Variant |-> u[i], Count |-> CountOf(col, u[i])]])

\* 6.1: warning iff the frequency table has no row
BarSection(counts) == IF Len(counts) = 0 THEN "warning" ELSE "chart"

ScatterSectionAlways(filtered) == IF Len(filtered) >= 0 THEN "chart" ELSE "warning"

\* 6.2: chart iff the filtered frame has a row
ScatterSection(filtered) == IF Len(filtered) > 0 THEN "chart" ELSE "warning"

\* 6.3: chart iff the filtered frame has a row
BoxSection(filtered) == IF Len(filtered) > 0 THEN "chart" ELSE "warning"

----------------------------------------------------------------------------
(* One run of the script, lines 48-146, on given widget values *)

Script(cached, dr, regions, variants) ==
    LET d == cached
    IN  IF Len(dr) # 2
        THEN \* line 82: the unpacking raises ValueError; the run stops there
             [df |-> d, status |-> "raised", df_filtered |-> <<>>,
              count_markdown |-> <<>>, variant_counts |-> <<>>,
              bar |-> "none", scatter |-> "none", box |-> "none"]
        ELSE LET start_date == dr[1]
                 end_date == dr[2]
                 filtered == ApplyFilters(d, start_date, end_date, regions, variants)
                 counts == value_counts(filtered)
             IN  [df |-> SourceAfterFilter(d, filtered), status |-> "done",
                  df_filtered |-> filtered,
                  count_markdown |-> <<Len(filtered)>>,
                  variant_counts |-> counts,
                  bar |-> BarSection(counts),
                  scatter |-> ScatterSection(filtered),
                  box |-> BoxSection(filtered)]

\* a rerun triggered with the given widget values
Rerun(dr, regions, variants) ==
    LET out == Script(cache, dr, regions, variants)
    IN  /\ date_range' = dr
        /\ selected_regions' = regions
        /\ selected_variants' = variants
        /\ cache' = cache
        /\ df' = out.df
        /\ status' = out.status
        /\ df_filtered' = out.df_filtered
        /\ count_markdown' = out.count_markdown
        /\ variant_counts' = out.variant_counts
        /\ bar' = out.bar
        /\ scatter' = out.scatter
        /\ box' = out.box

----------------------------------------------------------------------------
(* The widgets *)

\* dates within DateSlack days of some sample's collection date
NearDates ==
    LET days == {DateOf(r.Date) : r \in Range(load_data)}
    IN  {x \in (SeqMin(days) - DateSlack)..(SeqMax(days) + DateSlack) :
            \E y \in days : x - y <= DateSlack /\ y - x <= DateSlack}

\* the dates the picker lets the user click: min_value <= d <= max_value
PickerDates ==
    {x \in NearDates : /\ x >= DateOf(min_date(load_data))
                       /\ x <= DateOf(max_date(load_data))}

\* the first run of the script: the cache is filled and every widget
\* returns its default
Init ==
    LET d == load_data
        out == Script(d, <<DateOf(min_date(d)), DateOf(max_date(d))>>,
                      all_regions(d), all_variants(d))
    IN  /\ cache = d
        /\ date_range = <<DateOf(min_date(d)), DateOf(max_date(d))>>
        /\ selected_regions = all_regions(d)
        /\ selected_variants = all_variants(d)
        /\ df = out.df
        /\ status = out.status
        /\ df_filtered = out.df_filtered
        /\ count_markdown = out.count_markdown
        /\ variant_counts = out.variant_counts
        /\ bar = out.bar
        /\ scatter = out.scatter
        /\ box = out.box

\* a click in the range picker while a complete range is shown starts a
\* new selection: the widget returns a 1-tuple
PickStart ==
    /\ Len(date_range) = 2
    /\ \E x \in PickerDates : Rerun(<<x>>, selected_regions, selected_variants)

\* a click while one date is chosen completes the range (ordered) when
\* it is not earlier than the start, else restarts the selection
PickEnd ==
    /\ Len(date_range) = 1
    /\ \E x \in PickerDates :
          IF x >= date_range[1]
          THEN Rerun(<<date_range[1], x>>, selected_regions, selected_variants)
          ELSE Rerun(<<x>>, selected_regions, selected_variants)

\* adding or removing one option of the region multiselect
ToggleRegion ==
    \E x \in all_regions(cache) :
        Rerun(date_range,
              IF x \in selected_regions THEN selected_regions \ {x}
                                        ELSE selected_regions \cup {x},
              selected_variants)

\* adding or removing one option of the variant multiselect
ToggleVariant ==
    \E x \in all_variants(cache) :
        Rerun(date_range, selected_regions,
              IF x \in selected_variants THEN selected_variants \ {x}
                                         ELSE selected_variants \cup {x})

Next == PickStart \/ PickEnd \/ ToggleRegion \/ ToggleVariant

Spec == Init /\ [][Next]_vars

----------------------------------------------------------------------------
(* The filter and render pipeline as a function of arbitrary criteria:     *)
(* any interval (also start > end, also beyond the data) and any two sets  *)

InitFilter ==
    /\ cache = load_data
    /\ df = load_data
    /\ date_range \in NearDates \X NearDates
    /\ selected_regions \in SUBSET all_regions(load_data)
    /\ selected_variants \in SUBSET all_variants(load_data)
    /\ status = "pending"
    /\ df_filtered = <<>>
    /\ count_markdown = <<>>
    /\ variant_counts = <<>>
    /\ bar = "none"
    /\ scatter = "none"
    /\ box = "none"

RunScript ==
    /\ status = "pending"
    /\ Rerun(date_range, selected_regions, selected_variants)

NextFilter == RunScript

SpecFilter == InitFilter /\ [][NextFilter]_vars

----------------------------------------------------------------------------
(* Properties *)

\* the 8-row table, written out with the collection day of each sample
SourceTable ==
    << [Sample_ID |-> "BR001", Date |-> 15 * SecondsPerDay, Region |-> "Brazil",
        Variant |-> "Gamma", Genome_Length |-> 29903],
       [Sample_ID |-> "BR002", Date |-> 41 * SecondsPerDay, Region |-> "Brazil",
        Variant |-> "Gamma", Genome_Length |-> 29903],
       [Sample_ID |-> "BR003", Date |-> 64 * SecondsPerDay, Region |-> "Brazil",
        Variant |-> "Delta", Genome_Length |-> 29850],
       [Sample_ID |-> "MX001", Date |-> 51 * SecondsPerDay, Region |-> "Mexico",
        Variant |-> "Delta", Genome_Length |-> 29900],
       [Sample_ID |-> "MX002", Date |-> 71 * SecondsPerDay, Region |-> "Mexico",
        Variant |-> "Omicron", Genome_Length |-> 29870],
       [Sample_ID |-> "US001", Date |-> 25 * SecondsPerDay, Region |-> "USA",
        Variant |-> "Delta", Genome_Length |-> 29910],
       [Sample_ID |-> "US002", Date |-> 46 * SecondsPerDay, Region |-> "USA",
        Variant |-> "Omicron", Genome_Length |-> 29865],
       [Sample_ID |-> "US003", Date |-> 61 * SecondsPerDay, Region |-> "USA",
        Variant |-> "Gamma", Genome_Length |-> 29903] >>

SourceRows == {SourceTable[i] : i \in 1..Len(SourceTable)}

FilteredRows == {df_filtered[i] : i \in 1..Len(df_filtered)}

FilteredIds == [i \in 1..Len(df_filtered) |-> df_filtered[i].Sample_ID]

\* the collection day of a row of the source table
DayOf(r) == r.Date \div SecondsPerDay

AllRegions == {"Brazil", "Mexico", "USA"}
AllVariants == {"Delta", "Gamma", "Omicron"}
FullRange == <<15, 71>>

AllWarnings == bar = "warning" /\ scatter = "warning" /\ box = "warning"

\* C1: for every interval [start, end] and every pair of selections, the
\* filtered set is exactly the set of source rows with
\* start <= Date <= end AND Region selected AND Variant selected.
C1_FilterIsConjunction ==
    status = "done" =>
        FilteredRows = {r \in SourceRows :
                            /\ date_range[1] <= DayOf(r)
                            /\ DayOf(r) <= date_range[2]
                            /\ r.Region \in selected_regions
                            /\ r.Variant \in selected_variants}

\* a run where one predicate alone excludes a row: all regions and variants
\* selected, and the interval keeps some rows but not all
C1_Witness ==
    /\ status = "done"
    /\ selected_regions = AllRegions
    /\ selected_variants = AllVariants
    /\ Len(df_filtered) > 0
    /\ Len(df_filtered) < Len(SourceTable)

\* C2: no run of the script raises: whatever the three widgets return, the
\* run passes the filter step and all three chart sections.
C2_NoFatalError ==
    /\ status # "raised"
    /\ bar # "none" /\ scatter # "none" /\ box # "none"

\* C3: whenever the filtered set is empty, the displayed count is 0 and each
\* of the three chart sections shows its warning and builds no chart.
C3_EmptyShowsWarnings ==
    (status = "done" /\ df_filtered = <<>>) =>
        /\ count_markdown = <<0>>
        /\ variant_counts = <<>>
        /\ AllWarnings

\* everything selected, and a date range that holds no collection date
C3_Witness ==
    /\ status = "done"
    /\ selected_regions = AllRegions
    /\ selected_variants = AllVariants
    /\ Len(date_range) = 2
    /\ \A r \in SourceRows : DayOf(r) < date_range[1] \/ DayOf(r) > date_range[2]
    /\ df_filtered = <<>>
    /\ AllWarnings

\* C4: an interval with start > end raises nothing: the filtered set is
\* empty, the count is 0, and the run reaches the three chart sections.
C4_ReversedRangeIsEmpty ==
    (status # "pending" /\ Len(date_range) = 2 /\ date_range[1] > date_range[2]) =>
        /\ status = "done"
        /\ df_filtered = <<>>
        /\ count_markdown = <<0>>
        /\ bar # "none" /\ scatter # "none" /\ box # "none"

\* a completed run on a reversed interval that encloses collection dates,
\* with everything selected
C4_Witness ==
    /\ status = "done"
    /\ date_range[1] > date_range[2]
    /\ \E r \in SourceRows : date_range[2] <= DayOf(r) /\ DayOf(r) <= date_range[1]
    /\ selected_regions = AllRegions
    /\ selected_variants = AllVariants

\* C5: an empty region selection or an empty variant selection gives an
\* empty filtered set, whatever the interval and the other selection.
C5_EmptySelectionIsEmpty ==
    (status = "done" /\ (selected_regions = {} \/ selected_variants = {})) =>
        df_filtered = <<>>

\* no region selected while the interval and the variants admit every row
C5_Witness ==
    /\ status = "done"
    /\ selected_regions = {}
    /\ selected_variants = AllVariants
    /\ date_range[1] <= FullRange[1]
    /\ date_range[2] >= FullRange[2]

\* C6: a row whose Region and Variant are selected and whose Date equals
\* start or equals end (of an interval start <= end) is in the filtered set.
C6_InclusiveBounds ==
    (status = "done" /\ date_range[1] <= date_range[2]) =>
        \A r \in SourceRows :
            (/\ r.Region \in selected_regions
             /\ r.Variant \in selected_variants
             /\ (DayOf(r) = date_range[1] \/ DayOf(r) = date_range[2]))
            => r \in FilteredRows

\* an interval that starts on one collection date and ends on another
C6_Witness ==
    /\ status = "done"
    /\ date_range[1] < date_range[2]
    /\ \E r \in FilteredRows : DayOf(r) = date_range[1]
    /\ \E r \in FilteredRows : DayOf(r) = date_range[2]

\* C7: every filtered row is a row of the source table, and no source row
\* appears more than once in the filtered set.
C7_FilteredIsSubset ==
    status = "done" =>
        /\ FilteredRows \subseteq SourceRows
        /\ \A i, j \in 1..Len(df_filtered) :
              df_filtered[i].Sample_ID = df_filtered[j].Sample_ID => i = j

\* a proper, non-trivial subset
C7_Witness ==
    /\ status = "done"
    /\ Len(df_filtered) >= 2
    /\ Len(df_filtered) < Len(SourceTable)

\* C8: after any sequence of interactions the source table is still the 8
\* rows of load_data, and what the last run produced is what a run on the
\* untouched table produces for the current widget values alone.
C8_SourceUnchanged ==
    /\ cache = SourceTable
    /\ df = SourceTable
    /\ LET out == Script(SourceTable, date_range, selected_regions, selected_variants)
       IN  /\ status = out.status
           /\ df_filtered = out.df_filtered
           /\ count_markdown = out.count_markdown
           /\ variant_counts = out.variant_counts
           /\ bar = out.bar /\ scatter = out.scatter /\ box = out.box

\* a run, after the filters were moved away from their defaults, that
\* filtered some rows out
C8_Witness ==
    /\ status = "done"
    /\ date_range # FullRange
    /\ selected_regions # AllRegions
    /\ selected_variants # AllVariants
    /\ Len(df_filtered) > 0
    /\ Len(df_filtered) < Len(SourceTable)

C9_Scenario ==
    /\ status = "done"
    /\ date_range = FullRange
    /\ selected_regions = {"Brazil"}
    /\ selected_variants = {"Gamma", "Delta"}

\* C9: region {Brazil}, variants {Gamma, Delta}, full date range: the
\* filtered set has 3 rows, BR001, BR002 and BR003.
C9_BrazilGammaDelta ==
    C9_Scenario =>
        /\ FilteredIds = <<"BR001", "BR002", "BR003">>
        /\ count_markdown = <<3>>

C9_Witness == C9_Scenario /\ Len(df_filtered) = 3

C10_Scenario ==
    /\ status = "done"
    /\ date_range = FullRange
    /\ selected_regions = AllRegions
    /\ selected_variants = {"Omicron"}

\* C10: only Omicron selected, all regions, full date range: the frequency
\* table has the single category Omicron with count 2, the number of
\* filtered rows, which are MX002 and US002.
C10_OmicronOnly ==
    C10_Scenario =>
        /\ variant_counts = <<[Variant |-> "Omicron", Count |-> 2]>>
        /\ Len(df_filtered) = 2
        /\ FilteredIds = <<"MX002", "US002">>

C10_Witness == C10_Scenario /\ Len(variant_counts) = 1 /\ bar = "chart"

====
